---- MODULE Spec2Model ----
(***************************************************************************)
(* Country_Currency (src/app.py): a cache of per-country records, filled   *)
(* by POST /countries/refresh from two upstream sources, with a singleton  *)
(* refresh_metadata row read by GET /status.                               *)
(*                                                                         *)
(* Optional (nullable) values are sequences of length at most one:        *)
(* None == <<>> and Some(v) == <<v>>.  Floats are exact rationals          *)
(* <<numerator, denominator>> with a positive denominator.                 *)
(***************************************************************************)
EXTENDS Integers, Sequences, FiniteSets, TLC

VARIABLES
    engine,            \* which database DATABASE_URL selected at start-up
    countries,         \* committed rows of table countries, in id order
    refresh_metadata,  \* committed rows of table refresh_metadata, in id order
    clock,             \* the value datetime.utcnow() last returned
    req,               \* per request worker: handler position, locals, session,
                       \* and (history) the entries it upserted last per name
    last_success_at,   \* history: timestamp written by the latest 200 refresh
    upstream,          \* None: upstream content changes freely; Some(i): fixed
    est                \* inputs and result of a direct calculate_gdp call

vars == <<engine, countries, refresh_metadata, clock, req, last_success_at,
          upstream, est>>

-----------------------------------------------------------------------------
(* Bounds of the model *)

MaxDir == 2        \* longest directory response
MaxClock == 1      \* utcnow() returns 0..MaxClock

-----------------------------------------------------------------------------
(* Python values *)

None == <<>>
Some(v) == <<v>>

\* Python truthiness of an optional number: None and 0 are falsy.
TruthyNum(v) == v # None /\ v[1] # 0

\* Python truthiness of an optional string: None and "" are falsy.
TruthyStr(v) == v # None /\ v[1] # ""

\* x or 0
OrZero(v) == IF TruthyNum(v) THEN v[1] ELSE 0

\* str.lower() / SQL lower() on the names and words the model uses.
Lower(s) ==
    CASE s = "Wakanda" -> "wakanda"
      [] s = "WAKANDA" -> "wakanda"
      [] s = "Zamunda" -> "zamunda"
      [] s = "Africa"  -> "africa"
      [] s = "WAK"     -> "wak"
      [] s = "ZAM"     -> "zam"
      [] s = "eSwatini" -> "eswatini"
      [] s = "AFRICA"  -> "africa"
      [] s = "Asia"    -> "asia"
      [] OTHER         -> s

\* The code points of the names the model uses.
Codes(s) ==
    CASE s = "Wakanda"  -> <<87, 97, 107, 97, 110, 100, 97>>
      [] s = "WAKANDA"  -> <<87, 65, 75, 65, 78, 68, 65>>
      [] s = "wakanda"  -> <<119, 97, 107, 97, 110, 100, 97>>
      [] s = "Zamunda"  -> <<90, 97, 109, 117, 110, 100, 97>>
      [] s = "zamunda"  -> <<122, 97, 109, 117, 110, 100, 97>>
      [] s = "eSwatini" -> <<101, 83, 119, 97, 116, 105, 110, 105>>
      [] s = "eswatini" -> <<101, 115, 119, 97, 116, 105, 110, 105>>

\* a sorts before b, code point by code point (a proper prefix first).
RECURSIVE CodesLess(_, _)
CodesLess(a, b) ==
    IF b = <<>> THEN FALSE
    ELSE IF a = <<>> THEN TRUE
    ELSE IF Head(a) # Head(b) THEN Head(a) < Head(b)
    ELSE CodesLess(Tail(a), Tail(b))

\* The quotient n / d of two numbers as an exact rational with d > 0.
Frac(n, d) == IF d < 0 THEN <<-n, -d>> ELSE <<n, d>>

FracLess(a, b) == a[1] * b[2] < b[1] * a[2]
FracLeq(a, b) == a[1] * b[2] <= b[1] * a[2]

-----------------------------------------------------------------------------
(* calculate_gdp *)

MULT_LO == 1000
MULT_HI == 2000

\* random.uniform(1000, 2000) is a + (b - a) * random(): it returns a value
\* N with a <= N <= b; b itself is returned when the sum rounds up
\* (1000 + 1000 * (1 - 2^-53) = 2000.0 in binary64).
Multipliers == {MULT_LO, MULT_HI}

\* Mutant: the multiplier is drawn from 2000..3000.
calculate_gdp_shifted(population, exchange_rate, multiplier) ==
    IF ~TruthyNum(population) \/ ~TruthyNum(exchange_rate)
    THEN None
    ELSE Some(Frac(population[1] * (multiplier + MULT_HI - MULT_LO),
                   exchange_rate[1]))

\* calculate_gdp(population, exchange_rate) with the multiplier it drew.
calculate_gdp(population, exchange_rate, multiplier) ==
    IF ~TruthyNum(population) \/ ~TruthyNum(exchange_rate)
    THEN None
    ELSE Some(Frac(population[1] * multiplier, exchange_rate[1]))

-----------------------------------------------------------------------------
(* The two upstream sources *)

\* Entries the Country Directory Source can return (restcountries v2 shape).
Wakanda ==
    [name |-> Some("Wakanda"), capital |-> Some("Birnin Zana"),
     region |-> Some("Africa"), population |-> Some(1000),
     flag |-> Some("wk.svg"), currencies |-> <<Some("WAK")>>]

\* The same country in another letter case, with every optional field missing.
WakandaUpper ==
    [name |-> Some("WAKANDA"), capital |-> None, region |-> None,
     population |-> None, flag |-> None, currencies |-> <<>>]

\* Two currencies (the first one counts) and a negative population.
Zamunda ==
    [name |-> Some("Zamunda"), capital |-> Some("Zamunda City"),
     region |-> Some("africa"), population |-> Some(-5),
     flag |-> None, currencies |-> <<Some("ZAM"), Some("WAK")>>]

\* An entry without a name.
Nameless ==
    [name |-> None, capital |-> Some("Birnin Zana"), region |-> Some("Africa"),
     population |-> Some(1000), flag |-> None, currencies |-> <<Some("WAK")>>]

Catalogue == {Wakanda, WakandaUpper, Zamunda, Nameless}

Range(q) == {q[k] : k \in DOMAIN q}

RECURSIVE SeqsUpTo(_, _)
SeqsUpTo(S, n) ==
    IF n = 0 THEN {<<>>}
    ELSE LET shorter == SeqsUpTo(S, n - 1)
         IN  shorter \cup {Append(q, x) : q \in shorter, x \in S}

\* Bodies the directory can answer with: lists of up to MaxDir entries,
\* no entry listed twice.
DirResponses == {q \in SeqsUpTo(Catalogue, MaxDir) : Cardinality(Range(q)) = Len(q)}

\* Bodies' "rates" mappings the Exchange Rate Source can answer with.
RatesFull == ("WAK" :> 2) @@ ("ZAM" :> 4)
RatesPartial == ("ZAM" :> 0)
RateResponses == {RatesFull, RatesPartial}

Inputs == [dir : DirResponses, rates : RateResponses]

\* exchange_rates.get(currency_code)
RateGet(rates, code) == IF code \in DOMAIN rates THEN Some(rates[code]) ELSE None

-----------------------------------------------------------------------------
(* Rows and the session of a request *)

Workers == {1, 2}

Engines == {"sqlite", "mysql"}

\* The key of the UNIQUE index on countries.name: SQLite compares names
\* byte-wise, MySQL's default collation ignores letter case.
UniqueKey(e, name) == IF e = "mysql" THEN Lower(name) ELSE name

IdleReq ==
    [pc |-> "idle",
     countries_data |-> <<>>,    \* the entries the loop has not reached yet
     exchange_rates |-> <<>>,
     new |-> <<>>,               \* session: rows added, in order
     dirty |-> {},               \* session: changed rows it had loaded
     total_countries |-> 0,
     metadata |-> None,
     latest |-> {},              \* history: last entry upserted per name
     resp |-> None]              \* the answer of the worker's last request

\* An answer: the handler, the HTTP status, what the body's "details" names
\* as the failing part, and the body's total_countries and last_refreshed_at
\* where it has them; logged tells whether the handler wrote a warning to
\* the application log on the way; name is the <name> of the request's
\* path and args its query string, where the route has them; rows is the
\* list of records of the body.
Resp(op, code, details, total) ==
    Some([op |-> op, code |-> code, details |-> details, total |-> total,
          last_refreshed_at |-> None, logged |-> FALSE, name |-> None,
          args |-> None, rows |-> <<>>])

\* The answer to a request for /countries/<name>.
RespFor(name, op, code, details) ==
    Some([Resp(op, code, details, None)[1] EXCEPT !.name = Some(name)])

\* The rows session s reads: committed rows with its own flushed updates,
\* then its own flushed inserts.
Overlay(row, dirty) ==
    IF \E d \in dirty : d.name = row.name
    THEN CHOOSE d \in dirty : d.name = row.name
    ELSE row

Visible(s, committed) ==
    [k \in DOMAIN committed |-> Overlay(committed[k], s.dirty)] \o s.new

\* Country.query.filter(func.lower(Country.name) == name.lower()).first()
Matches(rows, name) == {k \in DOMAIN rows : Lower(rows[k].name) = Lower(name)}

\* Mutant: the lookup compares the names as they are written.
FindByName_exact(rows, name) ==
    IF \E k \in DOMAIN rows : rows[k].name = name
    THEN Some(rows[CHOOSE k \in DOMAIN rows : rows[k].name = name])
    ELSE None

FindByName(rows, name) ==
    IF Matches(rows, name) = {} THEN None
    ELSE Some(rows[CHOOSE k \in Matches(rows, name) :
                        \A j \in Matches(rows, name) : k <= j])

-----------------------------------------------------------------------------
(* POST /countries/refresh *)

\* The first currency's code, if the entry lists any currencies.
CurrencyCode(entry) ==
    IF entry.currencies # <<>> THEN entry.currencies[1] ELSE None

\* exchange_rate is looked up only for a truthy currency code.
ExchangeRate(entry, rates) ==
    IF TruthyStr(CurrencyCode(entry))
    THEN RateGet(rates, CurrencyCode(entry)[1])
    ELSE None

\* estimated_gdp is computed only for a truthy population and rate.
EstimatedGdp(entry, rates, multiplier) ==
    IF /\ TruthyStr(CurrencyCode(entry))
       /\ TruthyNum(entry.population)
       /\ TruthyNum(ExchangeRate(entry, rates))
    THEN calculate_gdp(entry.population, ExchangeRate(entry, rates), multiplier)
    ELSE None

\* Mutant: the numerator of the estimate is stored as the population.
RowFor_scaled(name, entry, rates, multiplier, now) ==
    [name |-> name,
     capital |-> entry.capital,
     region |-> entry.region,
     population |-> OrZero(entry.population) * multiplier,
     currency_code |-> CurrencyCode(entry),
     exchange_rate |-> ExchangeRate(entry, rates),
     estimated_gdp |-> EstimatedGdp(entry, rates, multiplier),
     flag_url |-> entry.flag,
     last_refreshed_at |-> now]

\* The row the loop body writes for an entry, under the stored name `name`.
RowFor(name, entry, rates, multiplier, now) ==
    [name |-> name,
     capital |-> entry.capital,
     region |-> entry.region,
     population |-> OrZero(entry.population),
     currency_code |-> CurrencyCode(entry),
     exchange_rate |-> ExchangeRate(entry, rates),
     estimated_gdp |-> EstimatedGdp(entry, rates, multiplier),
     flag_url |-> entry.flag,
     last_refreshed_at |-> now]

\* Mutant: an update keeps the old value of a nullable column for which the
\* entry yields none.
UpsertEntry_keeps_stale(s, committed, entry, multiplier, now) ==
    IF ~TruthyStr(entry.name) THEN s
    ELSE
      LET existing_country == FindByName(Visible(s, committed), entry.name[1])
          keep(new, old) == IF new = None THEN old ELSE new
      IN  IF existing_country = None
          THEN [s EXCEPT !.new = Append(@, RowFor(entry.name[1], entry,
                                    s.exchange_rates, multiplier, now))]
          ELSE
            LET old == existing_country[1]
                row == RowFor(old.name, entry, s.exchange_rates, multiplier, now)
                updated == [row EXCEPT
                    !.capital = keep(@, old.capital),
                    !.region = keep(@, old.region),
                    !.currency_code = keep(@, old.currency_code),
                    !.exchange_rate = keep(@, old.exchange_rate),
                    !.estimated_gdp = keep(@, old.estimated_gdp),
                    !.flag_url = keep(@, old.flag_url)]
                pending == {k \in DOMAIN s.new : s.new[k].name = updated.name}
            IN  IF pending # {}
                THEN [s EXCEPT !.new = [k \in DOMAIN s.new |->
                                  IF k \in pending THEN updated ELSE s.new[k]]]
                ELSE [s EXCEPT !.dirty =
                        {d \in @ : d.name # updated.name} \cup {updated}]

\* One pass of the loop body over `entry` in session s: look the name up,
\* then update the row found or add a new one.  An entry whose name is
\* falsy is skipped.
UpsertEntry(s, committed, entry, multiplier, now) ==
    IF ~TruthyStr(entry.name) THEN s
    ELSE
      LET existing_country == FindByName(Visible(s, committed), entry.name[1])
      IN  IF existing_country = None
          THEN [s EXCEPT !.new = Append(@, RowFor(entry.name[1], entry,
                                    s.exchange_rates, multiplier, now))]
          ELSE
            LET updated == RowFor(existing_country[1].name, entry,
                                  s.exchange_rates, multiplier, now)
                pending == {k \in DOMAIN s.new : s.new[k].name = updated.name}
            IN  IF pending # {}
                THEN [s EXCEPT !.new = [k \in DOMAIN s.new |->
                                  IF k \in pending THEN updated ELSE s.new[k]]]
                ELSE [s EXCEPT !.dirty =
                        {d \in @ : d.name # updated.name} \cup {updated}]

\* Mutant: the commit keeps only the rows the cycle wrote.
Committed_drops_untouched(s, committed) ==
    SelectSeq(Visible(s, committed),
              LAMBDA r : r \in s.dirty \/ r \in Range(s.new))

\* Mutant: of a changed row, the commit publishes the new capital only.
Committed_capital_only(s, committed) ==
    [k \in DOMAIN committed |->
        [committed[k] EXCEPT !.capital = Overlay(committed[k], s.dirty).capital]]
    \o s.new

\* The table after the session's flushed updates and inserts are committed.
Committed(s, committed) == Visible(s, committed)

\* The UNIQUE index on name rejects a pending insert whose key a committed
\* row already holds (another transaction inserted it since the lookup).
UniqueViolation(e, s, committed) ==
    \E k \in DOMAIN s.new, j \in DOMAIN committed :
        UniqueKey(e, s.new[k].name) = UniqueKey(e, committed[j].name)

\* lines 201-207: the directory fetch.
FetchCountriesOk(w, responses) ==
    /\ req[w].pc = "idle"
    /\ \E body \in responses :
         req' = [req EXCEPT ![w] = [IdleReq EXCEPT !.pc = "rates",
                                        !.countries_data = body]]
    /\ UNCHANGED <<engine, countries, refresh_metadata, clock, last_success_at,
                   upstream, est>>

FetchCountriesFail(w) ==
    /\ req[w].pc = "idle"
    /\ req' = [req EXCEPT ![w] = [IdleReq EXCEPT !.resp =
                  Resp("refresh", 503, Some("countries API"), None)]]
    /\ UNCHANGED <<engine, countries, refresh_metadata, clock, last_success_at,
                   upstream, est>>

\* lines 209-216: the exchange-rate fetch.
FetchRatesOk(w, responses) ==
    /\ req[w].pc = "rates"
    /\ \E rates \in responses :
         req' = [req EXCEPT ![w].pc = "loop", ![w].exchange_rates = rates]
    /\ UNCHANGED <<engine, countries, refresh_metadata, clock, last_success_at,
                   upstream, est>>

\* Mutant: the first directory entry is upserted and committed before the
\* failure of the rates fetch is answered.
FetchRatesFail_after_write(w) ==
    /\ req[w].pc = "rates"
    /\ countries' =
          IF req[w].countries_data = <<>> THEN countries
          ELSE Visible(UpsertEntry(req[w], countries, Head(req[w].countries_data),
                                   MULT_LO, clock), countries)
    /\ req' = [req EXCEPT ![w] = [IdleReq EXCEPT !.resp =
                  Resp("refresh", 503, Some("exchange rate API"), None)]]
    /\ UNCHANGED <<engine, refresh_metadata, clock, last_success_at, upstream, est>>

FetchRatesFail(w) ==
    /\ req[w].pc = "rates"
    /\ req' = [req EXCEPT ![w] = [IdleReq EXCEPT !.resp =
                  Resp("refresh", 503, Some("exchange rate API"), None)]]
    /\ UNCHANGED <<engine, countries, refresh_metadata, clock, last_success_at,
                   upstream, est>>

\* History: the entries upserted so far, the last one per lower-cased name.
Latest(latest, entry) ==
    IF ~TruthyStr(entry.name) THEN latest
    ELSE {x \in latest : Lower(x.name[1]) # Lower(entry.name[1])} \cup {entry}

\* Mutant: an entry without a name ends the loop.
ProcessEntry_stops_at_nameless(w) ==
    /\ req[w].pc = "loop"
    /\ req[w].countries_data # <<>>
    /\ LET country_data == Head(req[w].countries_data)
       IN  \E multiplier \in Multipliers, now \in clock..MaxClock :
             /\ clock' = IF TruthyStr(country_data.name) THEN now ELSE clock
             /\ req' = [req EXCEPT ![w] =
                    [UpsertEntry(req[w], countries, country_data, multiplier, now)
                        EXCEPT !.countries_data =
                                  IF TruthyStr(country_data.name)
                                  THEN Tail(@) ELSE <<>>,
                               !.latest = Latest(@, country_data)]]
    /\ UNCHANGED <<engine, countries, refresh_metadata, last_success_at,
                   upstream, est>>

\* lines 219-268: one iteration of the loop.
ProcessEntry(w) ==
    /\ req[w].pc = "loop"
    /\ req[w].countries_data # <<>>
    /\ LET country_data == Head(req[w].countries_data)
       IN  \E multiplier \in Multipliers, now \in clock..MaxClock :
             /\ clock' = IF TruthyStr(country_data.name) THEN now ELSE clock
             /\ req' = [req EXCEPT ![w] =
                    [UpsertEntry(req[w], countries, country_data, multiplier, now)
                        EXCEPT !.countries_data = Tail(@),
                               !.latest = Latest(@, country_data)]]
    /\ UNCHANGED <<engine, countries, refresh_metadata, last_success_at,
                   upstream, est>>

LoopDone(w) ==
    /\ req[w].pc = "loop"
    /\ req[w].countries_data = <<>>

\* lines 270-272: the commit of the upserts succeeds.
CommitOk(w) ==
    /\ LoopDone(w)
    /\ ~UniqueViolation(engine, req[w], countries)
    /\ countries' = Committed(req[w], countries)
    /\ req' = [req EXCEPT ![w].pc = "meta", ![w].new = <<>>, ![w].dirty = {}]
    /\ UNCHANGED <<engine, refresh_metadata, clock, last_success_at, upstream, est>>

\* Mutant: the rows the cycle added survive the rejected commit.
CommitFail_keeps_inserts(w) ==
    /\ LoopDone(w)
    /\ countries' = countries \o req[w].new
    /\ req' = [req EXCEPT ![w] = [IdleReq EXCEPT !.resp =
                  Resp("refresh", 500, Some("Database error"), None)]]
    /\ UNCHANGED <<engine, refresh_metadata, clock, last_success_at, upstream, est>>

\* lines 273-275: the store rejects the commit; the session is rolled back.
CommitFail(w) ==
    /\ LoopDone(w)
    /\ req' = [req EXCEPT ![w] = [IdleReq EXCEPT !.resp =
                  Resp("refresh", 500, Some("Database error"), None)]]
    /\ UNCHANGED <<engine, countries, refresh_metadata, clock, last_success_at,
                   upstream, est>>

\* lines 278-279: count the rows and read the metadata row.
MetaRead(w) ==
    /\ req[w].pc = "meta"
    /\ req' = [req EXCEPT ![w].pc = "meta_write",
                          ![w].total_countries = Len(countries),
                          ![w].metadata =
                              IF refresh_metadata = <<>> THEN None
                              ELSE Some(refresh_metadata[1])]
    /\ UNCHANGED <<engine, countries, refresh_metadata, clock, last_success_at,
                   upstream, est>>

\* lines 280-282: the row exists; it is changed in the session, and no
\* commit follows in this branch.
MetaUpdate(w) ==
    /\ req[w].pc = "meta_write"
    /\ req[w].metadata # None
    /\ \E now \in clock..MaxClock :
         /\ clock' = now
         /\ req' = [req EXCEPT ![w].pc = "image",
                      ![w].metadata = Some([last_refreshed_at |-> Some(now),
                               total_countries |-> req[w].total_countries])]
    /\ UNCHANGED <<engine, countries, refresh_metadata, last_success_at,
                   upstream, est>>

\* lines 283-289: no row yet; one is added and committed.
MetaCreate(w) ==
    /\ req[w].pc = "meta_write"
    /\ req[w].metadata = None
    /\ \E now \in clock..MaxClock :
         LET metadata == [last_refreshed_at |-> Some(now),
                          total_countries |-> req[w].total_countries]
         IN  /\ clock' = now
             /\ refresh_metadata' = Append(refresh_metadata, metadata)
             /\ req' = [req EXCEPT ![w].pc = "image",
                                   ![w].metadata = Some(metadata)]
    /\ UNCHANGED <<engine, countries, last_success_at, upstream, est>>

\* line 289 raises: the exception leaves the view, the answer is 500.
MetaCreateFail(w) ==
    /\ req[w].pc = "meta_write"
    /\ req[w].metadata = None
    /\ req' = [req EXCEPT ![w] = [IdleReq EXCEPT !.resp =
                  Resp("refresh", 500, Some("Internal server error"), None)]]
    /\ UNCHANGED <<engine, countries, refresh_metadata, clock, last_success_at,
                   upstream, est>>

\* lines 291-301 and the teardown of the request: the summary image is
\* drawn, 200 is answered, and the session is removed, which rolls back
\* whatever it had not committed.
Finish(w) ==
    /\ req[w].pc = "image"
    /\ req' = [req EXCEPT ![w] = [IdleReq EXCEPT
                  !.resp = Resp("refresh", 200, None,
                                Some(req[w].total_countries))]]
    /\ last_success_at' = req[w].metadata[1].last_refreshed_at
    /\ UNCHANGED <<engine, countries, refresh_metadata, clock, upstream, est>>

\* Mutant: the exception of the image step leaves the view.
FinishReportFail_raises(w) ==
    /\ req[w].pc = "image"
    /\ req' = [req EXCEPT ![w] = [IdleReq EXCEPT !.resp =
                  Resp("refresh", 500, Some("Internal server error"), None)]]
    /\ UNCHANGED <<engine, countries, refresh_metadata, clock, last_success_at,
                   upstream, est>>

\* lines 292-301: Country.query.all() or generate_summary_image raises; the
\* except clause logs a warning and the handler goes on to answer 200.
FinishReportFail(w) ==
    /\ req[w].pc = "image"
    /\ req' = [req EXCEPT ![w] = [IdleReq EXCEPT
                  !.resp = Some([Resp("refresh", 200, None,
                                      Some(req[w].total_countries))[1]
                                    EXCEPT !.logged = TRUE])]]
    /\ last_success_at' = req[w].metadata[1].last_refreshed_at
    /\ UNCHANGED <<engine, countries, refresh_metadata, clock, upstream, est>>

-----------------------------------------------------------------------------
(* DELETE /countries/<name> *)

DeleteNames == {"wakanda", "Zamunda"}

Without(rows, name) == SelectSeq(rows, LAMBDA r : r.name # name)

\* Mutant: the metadata row is given the current count before the 404.
DeleteNotFound_recount(w, name) ==
    /\ req[w].pc = "idle"
    /\ FindByName(countries, name) = None
    /\ refresh_metadata' =
          IF refresh_metadata = <<>> THEN refresh_metadata
          ELSE [refresh_metadata EXCEPT ![1].total_countries = Len(countries)]
    /\ req' = [req EXCEPT ![w] = [IdleReq EXCEPT !.resp = RespFor(name, "delete", 404, None)]]
    /\ UNCHANGED <<engine, countries, clock, last_success_at, upstream, est>>

\* lines 342-346: no row matches.
DeleteNotFound(w, name) ==
    /\ req[w].pc = "idle"
    /\ FindByName(countries, name) = None
    /\ req' = [req EXCEPT ![w] = [IdleReq EXCEPT !.resp = RespFor(name, "delete", 404, None)]]
    /\ UNCHANGED <<engine, countries, refresh_metadata, clock, last_success_at,
                   upstream, est>>

\* Mutant: the metadata row is left as it is.
DeleteOk_no_recount(w, name) ==
    /\ req[w].pc = "idle"
    /\ FindByName(countries, name) # None
    /\ countries' = Without(countries, FindByName(countries, name)[1].name)
    /\ req' = [req EXCEPT ![w] =
                  [IdleReq EXCEPT !.resp = RespFor(name, "delete", 200, None)]]
    /\ UNCHANGED <<engine, refresh_metadata, clock, last_success_at, upstream, est>>

\* lines 347-354: the row is deleted and committed, then the metadata row,
\* if there is one, gets the new count and is committed.
DeleteOk(w, name) ==
    /\ req[w].pc = "idle"
    /\ FindByName(countries, name) # None
    /\ LET country == FindByName(countries, name)[1]
           left == Without(countries, country.name)
       IN  /\ countries' = left
           /\ refresh_metadata' =
                 IF refresh_metadata = <<>> THEN refresh_metadata
                 ELSE [refresh_metadata EXCEPT ![1].total_countries = Len(left)]
           /\ req' = [req EXCEPT ![w] =
                         [IdleReq EXCEPT !.resp = RespFor(name, "delete", 200, None)]]
    /\ UNCHANGED <<engine, clock, last_success_at, upstream, est>>

\* line 349 raises: nothing is committed (lines 355-357).
DeleteFail(w, name) ==
    /\ req[w].pc = "idle"
    /\ FindByName(countries, name) # None
    /\ req' = [req EXCEPT ![w] = [IdleReq EXCEPT !.resp =
                             RespFor(name, "delete", 500, Some("Database error"))]]
    /\ UNCHANGED <<engine, countries, refresh_metadata, clock, last_success_at,
                   upstream, est>>

\* line 353 raises: the delete is already committed, the new count is not.
DeleteMetaFail(w, name) ==
    /\ req[w].pc = "idle"
    /\ FindByName(countries, name) # None
    /\ refresh_metadata # <<>>
    /\ LET country == FindByName(countries, name)[1]
       IN  /\ countries' = Without(countries, country.name)
           /\ req' = [req EXCEPT ![w] =
                         [IdleReq EXCEPT !.resp =
                             RespFor(name, "delete", 500, Some("Database error"))]]
    /\ UNCHANGED <<engine, refresh_metadata, clock, last_success_at, upstream, est>>

-----------------------------------------------------------------------------
(* GET /status *)

get_status ==
    IF refresh_metadata = <<>>
    THEN [total_countries |-> 0, last_refreshed_at |-> None]
    ELSE [total_countries |-> refresh_metadata[1].total_countries,
          last_refreshed_at |-> refresh_metadata[1].last_refreshed_at]

Status(w) ==
    /\ req[w].pc = "idle"
    /\ req' = [req EXCEPT ![w] = [IdleReq EXCEPT !.resp =
                  Some([Resp("status", 200, None,
                             Some(get_status.total_countries))[1]
                           EXCEPT !.last_refreshed_at =
                                      get_status.last_refreshed_at])]]
    /\ UNCHANGED <<engine, countries, refresh_metadata, clock, last_success_at,
                   upstream, est>>

-----------------------------------------------------------------------------
(* GET /countries *)

\* The rows that pass the filters the query string asks for, in id order.
\* A falsy parameter asks for no filter; lower(NULL) = x is never true.
Filtered(rows, region, currency) ==
    SelectSeq(rows, LAMBDA r :
        /\ TruthyStr(region) =>
              r.region # None /\ Lower(r.region[1]) = Lower(region[1])
        /\ TruthyStr(currency) =>
              r.currency_code # None
                 /\ Lower(r.currency_code[1]) = Lower(currency[1]))

\* Mutant: NULL sorts above every value, as it does where NULLS LAST is the
\* default of ascending order.
GdpBefore_nulls_high(a, b) ==
    \/ a.estimated_gdp # None /\ b.estimated_gdp = None
    \/ a.estimated_gdp # None /\ b.estimated_gdp # None
          /\ FracLess(a.estimated_gdp[1], b.estimated_gdp[1])

\* ORDER BY estimated_gdp ASC puts a before b: SQLite and MySQL both sort
\* NULL below every value.
GdpBefore(a, b) ==
    \/ a.estimated_gdp = None /\ b.estimated_gdp # None
    \/ a.estimated_gdp # None /\ b.estimated_gdp # None
          /\ FracLess(a.estimated_gdp[1], b.estimated_gdp[1])

\* ORDER BY name ASC puts a before b, under the collation of the column:
\* byte-wise on SQLite, ignoring letter case on MySQL.
NameBefore(e, a, b) ==
    CodesLess(Codes(UniqueKey(e, a.name)), Codes(UniqueKey(e, b.name)))

\* The ORDER BY clause of sort puts a before b.
Before(e, sort, a, b) ==
    CASE sort = "gdp_desc" -> GdpBefore(b, a)
      [] sort = "gdp_asc"  -> GdpBefore(a, b)
      [] sort = "name"     -> NameBefore(e, a, b)

\* The orders of q in which no row comes after one it must precede; rows
\* the order does not tell apart may come either way.
Sorted(e, q, sort) ==
    {r \in {[k \in DOMAIN q |-> q[p[k]]] : p \in Permutations(DOMAIN q)} :
        \A i, j \in DOMAIN r : i < j => ~Before(e, sort, r[j], r[i])}

\* The lists query.all() can return for the query string; any other sort
\* value, or none, adds no ORDER BY and the rows come in id order.
get_countries(e, rows, region, currency, sort) ==
    LET query == Filtered(rows, region, currency)
    IN  IF sort \in {Some("gdp_desc"), Some("gdp_asc"), Some("name")}
        THEN Sorted(e, query, sort[1])
        ELSE {query}

QueryRegions == {None, Some(""), Some("AFRICA"), Some("Asia")}
QueryCurrencies == {None, Some("wak"), Some("ZAM")}
QuerySorts == {None, Some("gdp_desc"), Some("gdp_asc"), Some("name"), Some("population")}

\* A request whose query string is drawn from the given values.
QueryWith(w, regions, currencies, sorts) ==
    /\ req[w].pc = "idle"
    /\ \E region \in regions, currency \in currencies, sort \in sorts :
         \E countries_list \in get_countries(engine, Visible(req[w], countries),
                                              region, currency, sort) :
            req' = [req EXCEPT ![w] = [IdleReq EXCEPT !.resp =
                      Some([Resp("query", 200, None, None)[1] EXCEPT
                               !.args = Some([region |-> region,
                                              currency |-> currency,
                                              sort |-> sort]),
                               !.rows = countries_list])]]
    /\ UNCHANGED <<engine, countries, refresh_metadata, clock, last_success_at,
                   upstream, est>>

Query(w) == QueryWith(w, QueryRegions, QueryCurrencies, QuerySorts)

-----------------------------------------------------------------------------
(* GET /countries/<name> *)

LookupNames == {"wakanda"}

\* lines 332-337: one SELECT in the request's own session; 404 without a row.
get_country(w, name) ==
    /\ req[w].pc = "idle"
    /\ LET country == FindByName(Visible(req[w], countries), name)
       IN  req' = [req EXCEPT ![w] = [IdleReq EXCEPT !.resp =
                     IF country = None
                     THEN RespFor(name, "get", 404, None)
                     ELSE Some([RespFor(name, "get", 200, None)[1]
                                   EXCEPT !.rows = <<country[1]>>])]]
    /\ UNCHANGED <<engine, countries, refresh_metadata, clock, last_success_at,
                   upstream, est>>

Lookup(w) == \E name \in LookupNames : get_country(w, name)

-----------------------------------------------------------------------------
(* A direct call of calculate_gdp *)

EstPopulations == {None, Some(-5), Some(-1), Some(0), Some(1), Some(3), Some(1000)}
EstRates == {None, Some(-2), Some(-1), Some(0), Some(1), Some(2), Some(4), Some(7)}

EstIdle ==
    [population |-> None, exchange_rate |-> None, called |-> FALSE,
     multiplier |-> MULT_LO, result |-> None]

Estimate ==
    /\ ~est.called
    /\ \E multiplier \in Multipliers :
         est' = [est EXCEPT !.called = TRUE, !.multiplier = multiplier,
                   !.result = calculate_gdp(est.population, est.exchange_rate,
                                            multiplier)]
    /\ UNCHANGED <<engine, countries, refresh_metadata, clock, req,
                   last_success_at, upstream>>

-----------------------------------------------------------------------------
(* Specifications *)

\* The engine is read only by UniqueViolation, which needs a second
\* transaction to become true, so the specifications that serve one request
\* at a time fix it to the local fallback database.
Init ==
    /\ engine = "sqlite"
    /\ countries = <<>>
    /\ refresh_metadata = <<>>
    /\ clock = 0
    /\ req = [w \in Workers |-> IdleReq]
    /\ last_success_at = None
    /\ upstream = None
    /\ est = EstIdle

\* The steps of one refresh cycle of worker w, fetching from the given bodies.
RefreshStep(w, dirs, rates) ==
    \/ FetchCountriesOk(w, dirs)
    \/ FetchCountriesFail(w)
    \/ FetchRatesOk(w, rates)
    \/ FetchRatesFail(w)
    \/ ProcessEntry(w)
    \/ CommitOk(w)
    \/ CommitFail(w)
    \/ MetaRead(w)
    \/ MetaUpdate(w)
    \/ MetaCreate(w)
    \/ MetaCreateFail(w)
    \/ Finish(w)
    \/ FinishReportFail(w)

DeleteStep(w) ==
    \E name \in DeleteNames :
        \/ DeleteNotFound(w, name)
        \/ DeleteOk(w, name)
        \/ DeleteFail(w, name)
        \/ DeleteMetaFail(w, name)

\* Requests served one at a time.
Next ==
    \/ RefreshStep(1, DirResponses, RateResponses)
    \/ DeleteStep(1)
    \/ Status(1)

Spec == Init /\ [][Next]_vars

\* Refresh cycles that all see the same directory and the same rates.
IdemInit ==
    /\ engine = "sqlite"
    /\ countries = <<>>
    /\ refresh_metadata = <<>>
    /\ clock = 0
    /\ req = [w \in Workers |-> IdleReq]
    /\ last_success_at = None
    /\ upstream \in {Some(input) : input \in Inputs}
    /\ est = EstIdle

IdemNext == RefreshStep(1, {upstream[1].dir}, {upstream[1].rates})

IdemSpec == IdemInit /\ [][IdemNext]_vars

\* Two workers running refresh cycles at the same time, on either database.
ConcDirResponses == {<<Wakanda>>, <<WakandaUpper>>}
ConcRateResponses == {RatesFull}

ConcInit ==
    /\ engine \in Engines
    /\ countries = <<>>
    /\ refresh_metadata = <<>>
    /\ clock = 0
    /\ req = [w \in Workers |-> IdleReq]
    /\ last_success_at = None
    /\ upstream = None
    /\ est = EstIdle

ConcNext == \E w \in Workers : RefreshStep(w, ConcDirResponses, ConcRateResponses)

ConcSpec == ConcInit /\ [][ConcNext]_vars

\* Refresh cycles and deletes served one at a time, the directory answering
\* with one of a few bodies: empty, one entry, an entry without a name
\* before or after a named one, one name twice, two names.
FrameDirResponses ==
    {<<>>, <<WakandaUpper>>, <<Zamunda>>, <<Nameless, Wakanda>>,
     <<Zamunda, Nameless>>, <<Wakanda, WakandaUpper>>, <<WakandaUpper, Zamunda>>}

FrameNext ==
    \/ RefreshStep(1, FrameDirResponses, RateResponses)
    \/ DeleteStep(1)

FrameSpec == Init /\ [][FrameNext]_vars

\* Worker 1 runs refresh cycles while worker 2 reads.
ReadDirResponses == ConcDirResponses \cup {<<Wakanda, WakandaUpper>>}

ReadNext ==
    \/ RefreshStep(1, ReadDirResponses, ConcRateResponses)
    \/ Lookup(2)
    \/ QueryWith(2, {None}, {None}, {None})

ReadSpec == Init /\ [][ReadNext]_vars

\* Queries on a store that earlier cycles have filled.
ESwatini ==
    [name |-> Some("eSwatini"), capital |-> Some("Mbabane"),
     region |-> Some("Africa"), population |-> Some(3),
     flag |-> None, currencies |-> <<Some("WAK")>>]

QueryCatalogue == {Wakanda, WakandaUpper, Zamunda, ESwatini}

QueryRows ==
    {RowFor(entry.name[1], entry, rates, MULT_LO, 0) :
        entry \in QueryCatalogue, rates \in RateResponses}

\* Tables of rows in any order of insertion, one row per name ignoring case.
QueryStores ==
    {q \in SeqsUpTo(QueryRows, Cardinality(QueryCatalogue)) :
        \A j, k \in DOMAIN q : j # k => Lower(q[j].name) # Lower(q[k].name)}

QueryInit ==
    /\ engine \in Engines
    /\ countries \in QueryStores
    /\ refresh_metadata = <<>>
    /\ clock = 0
    /\ req = [w \in Workers |-> IdleReq]
    /\ last_success_at = None
    /\ upstream = None
    /\ est = EstIdle

QueryNext == Query(1)

QuerySpec == QueryInit /\ [][QueryNext]_vars

\* calculate_gdp called on its own.
EstInit ==
    /\ engine = "sqlite"
    /\ countries = <<>>
    /\ refresh_metadata = <<>>
    /\ clock = 0
    /\ req = [w \in Workers |-> IdleReq]
    /\ last_success_at = None
    /\ upstream = None
    /\ est \in {[EstIdle EXCEPT !.population = p, !.exchange_rate = r] :
                   p \in EstPopulations, r \in EstRates}

EstNext == Estimate

EstSpec == EstInit /\ [][EstNext]_vars

-----------------------------------------------------------------------------
(* Properties *)

\* Worker w is idle and its last answer came from handler op with status code.
Answered(w, op, code) ==
    /\ req[w].pc = "idle"
    /\ req[w].resp # None
    /\ req[w].resp[1].op = op
    /\ req[w].resp[1].code = code

\* No two rows have names that are equal ignoring letter case.
UniqueLower(rows) ==
    \A j, k \in DOMAIN rows : j # k => Lower(rows[j].name) # Lower(rows[k].name)

\* A row without its estimated_gdp and last_refreshed_at.
Proj(row) ==
    [name |-> row.name, capital |-> row.capital, region |-> row.region,
     population |-> row.population, currency_code |-> row.currency_code,
     exchange_rate |-> row.exchange_rate, flag_url |-> row.flag_url]

ProjSet(rows) == {Proj(rows[k]) : k \in DOMAIN rows}

\* rows holds exactly one row for each entry of latest, with that entry's values.
LastWriteWins(rows, latest) ==
    \A e \in latest :
        /\ Cardinality(Matches(rows, e.name[1])) = 1
        /\ \A k \in Matches(rows, e.name[1]) :
              /\ rows[k].capital = e.capital
              /\ rows[k].region = e.region
              /\ rows[k].population = OrZero(e.population)
              /\ rows[k].currency_code = CurrencyCode(e)
              /\ rows[k].flag_url = e.flag

\* C1: when a refresh has just answered 200, the total_countries that
\* GET /status returns equals the number of rows of table countries.
C1_StatusCountAfterRefresh ==
    Answered(1, "refresh", 200) => get_status.total_countries = Len(countries)

\* C2: a step that answers 503 for a failed fetch, and the directory fetch
\* that may precede it, leave the countries rows and the metadata rows as
\* they were; 503 is answered only from the two fetches.
C2_UpstreamFailureLeavesStore ==
    [][\A w \in Workers :
          /\ (req[w].pc = "idle" /\ req'[w].pc = "rates")
                => UNCHANGED <<countries, refresh_metadata>>
          /\ (req'[w] # req[w] /\ req'[w].resp # None /\ req'[w].resp[1].code = 503)
                => /\ req[w].pc \in {"idle", "rates"}
                   /\ req'[w].pc = "idle"
                   /\ req'[w].resp[1].details =
                         IF req[w].pc = "idle" THEN Some("countries API")
                         ELSE Some("exchange rate API")
                   /\ UNCHANGED <<countries, refresh_metadata>>]_vars

\* The rates fetch failed after the directory fetch, with rows and a metadata
\* row in the store.
C2_Witness ==
    /\ Answered(1, "refresh", 503)
    /\ req[1].resp[1].details = Some("exchange rate API")
    /\ countries # <<>>
    /\ refresh_metadata # <<>>

\* C3: with requests served one at a time, the committed rows never hold two
\* names equal ignoring case, and the rows a cycle has written (and then
\* committed) hold one row per name it upserted, with the values of the last
\* entry of that name.
C3_OneRecordPerName ==
    /\ UniqueLower(countries)
    /\ LastWriteWins(Visible(req[1], countries), req[1].latest)

\* On an empty store, a cycle has upserted "Wakanda" and then "WAKANDA": its
\* single row has the first name and the second entry's values.
C3_Witness ==
    /\ countries = <<>>
    /\ req[1].pc = "loop"
    /\ req[1].countries_data = <<>>
    /\ req[1].latest = {WakandaUpper}
    /\ Len(req[1].new) = 1
    /\ req[1].new[1].name = "Wakanda"
    /\ req[1].new[1].capital = None

\* C4: once a cycle has answered 200, later cycles with the same directory
\* and rates leave the set of rows, their count and every column but
\* estimated_gdp and last_refreshed_at as they were.
C4_RefreshIdempotent ==
    [][last_success_at # None =>
          /\ ProjSet(countries') = ProjSet(countries)
          /\ Len(countries') = Len(countries)]_vars

\* A cycle after a successful one has committed two rows again.
C4_Witness ==
    /\ last_success_at # None
    /\ req[1].pc = "meta"
    /\ Len(countries) = 2

\* C5: a row's estimated_gdp is present only if its population is greater
\* than 0 and its exchange_rate is present.
C5_GdpOnlyWithPopulationAndRate ==
    \A k \in DOMAIN countries :
        countries[k].estimated_gdp # None =>
            /\ countries[k].population > 0
            /\ countries[k].exchange_rate # None

\* C6: calculate_gdp returns a value exactly when population > 0 and
\* exchange_rate > 0.
C6_ComputableOnlyWhenPositive ==
    est.called =>
        (est.result # None <=>
            /\ est.population # None /\ est.population[1] > 0
            /\ est.exchange_rate # None /\ est.exchange_rate[1] > 0)

PositiveInputs ==
    /\ est.called
    /\ est.population # None /\ est.population[1] > 0
    /\ est.exchange_rate # None /\ est.exchange_rate[1] > 0

WholeRow(row) ==
    \E e \in Catalogue, rates \in RateResponses, m \in Multipliers, t \in 0..MaxClock :
        row = RowFor(row.name, e, rates, m, t)

\* C8: with two cycles interleaved, the committed rows hold at most one row
\* per name ignoring case, each with all its values from one cycle.
C8_NoDuplicateUnderConcurrency ==
    /\ UniqueLower(countries)
    /\ \A k \in DOMAIN countries : WholeRow(countries[k])

\* C9: the store holds at most one refresh_metadata row.
C9_MetadataSingleton == Len(refresh_metadata) <= 1

\* C10: between requests, GET /status returns last_refreshed_at None and
\* total_countries 0 exactly when no refresh has answered 200 yet, and
\* otherwise the timestamp the latest such refresh wrote.
C10_StatusReportsLatestRefresh ==
    req[1].pc = "idle" =>
        /\ (get_status.last_refreshed_at = None /\ get_status.total_countries = 0)
              <=> last_success_at = None
        /\ last_success_at # None => get_status.last_refreshed_at = last_success_at

\* C11: a step that ends a cycle at the commit of its upserts answers 500
\* "Database error", never 200, empties the session (rollback), and leaves
\* the committed countries rows and the metadata rows as they were; that
\* answer is given only from there.
C11_CommitRejectionRollsBack ==
    [][\A w \in Workers :
          /\ (req[w].pc = "loop" /\ req'[w].pc = "idle")
                => /\ req'[w].resp = Resp("refresh", 500, Some("Database error"), None)
                   /\ req'[w].new = <<>> /\ req'[w].dirty = {}
                   /\ req'[w].metadata = None
                   /\ UNCHANGED <<countries, refresh_metadata, last_success_at>>
          /\ (req'[w] # req[w]
                /\ req'[w].resp = Resp("refresh", 500, Some("Database error"), None))
                => /\ LoopDone(w)
                   /\ UNCHANGED <<countries, refresh_metadata>>]_vars

\* The commit of a cycle was rejected with rows and a metadata row in the
\* store.
C11_Witness ==
    /\ Answered(1, "refresh", 500)
    /\ req[1].resp[1].details = Some("Database error")
    /\ countries # <<>>
    /\ refresh_metadata # <<>>

\* C12: every step that ends a cycle after the metadata step, whether or not
\* the image step raised, answers 200 with the number of countries rows and
\* leaves the countries rows and the metadata rows as they were.
C12_ReporterFailureSwallowed ==
    [][\A w \in Workers :
          (req[w].pc = "image" /\ req'[w].pc = "idle")
             => /\ req'[w].resp # None
                /\ req'[w].resp[1].op = "refresh"
                /\ req'[w].resp[1].code = 200
                /\ req'[w].resp[1].total = Some(Len(countries))
                /\ last_success_at' = req[w].metadata[1].last_refreshed_at
                /\ UNCHANGED <<countries, refresh_metadata>>]_vars

\* A cycle whose image step raised answered 200, with rows in the store.
C12_Witness ==
    /\ Answered(1, "refresh", 200)
    /\ req[1].resp[1].logged
    /\ req[1].resp[1].total = Some(Len(countries))
    /\ countries # <<>>

\* Worker w answers a DELETE /countries/<name> in this step.
DeleteAnswered(w) ==
    /\ req[w].pc = "idle"
    /\ req'[w] # req[w]
    /\ req'[w].resp # None
    /\ req'[w].resp[1].op = "delete"

\* C13: a DELETE answers 404 exactly when no row's name equals the requested
\* name ignoring case (so always on an empty table), and then the countries
\* rows, their number and the metadata rows are as before.
C13_DeleteNotFoundChangesNothing ==
    [][\A w \in Workers :
          DeleteAnswered(w) =>
             LET name == req'[w].resp[1].name[1]
                 none == \A k \in DOMAIN countries :
                            Lower(countries[k].name) # Lower(name)
             IN  /\ none <=> req'[w].resp[1].code = 404
                 /\ none => UNCHANGED <<countries, refresh_metadata>>]_vars

\* "Zamunda" was asked for while the table held only a Wakanda row, whose
\* count the metadata row does not show.
C13_Witness ==
    /\ Answered(1, "delete", 404)
    /\ req[1].resp[1].name = Some("Zamunda")
    /\ Len(countries) = 1
    /\ Lower(countries[1].name) = "wakanda"
    /\ refresh_metadata # <<>>
    /\ refresh_metadata[1].total_countries # 1

\* The rows of the table that the query string of answer a asks for.
Wanted(a) ==
    {r \in Range(countries) :
        /\ TruthyStr(a.args[1].region) =>
              r.region # None /\ Lower(r.region[1]) = Lower(a.args[1].region[1])
        /\ TruthyStr(a.args[1].currency) =>
              r.currency_code # None
                 /\ Lower(r.currency_code[1]) = Lower(a.args[1].currency[1])}

\* The answer lists each wanted row once and no other row.
ExactlyWanted(a) ==
    /\ Range(a.rows) = Wanted(a)
    /\ Len(a.rows) = Cardinality(Wanted(a))

\* The filter half of C14 alone.
QueryFilterExact ==
    Answered(1, "query", 200) => ExactlyWanted(req[1].resp[1])

\* C14: a query answers with exactly the rows whose region and
\* currency_code equal the given parameters ignoring case (a row without
\* the column never matches), and with sort=name no row comes before one
\* whose lower-cased name sorts before its own.
C14_QueryFiltersAndNameOrder ==
    Answered(1, "query", 200) =>
        LET a == req[1].resp[1]
        IN  /\ ExactlyWanted(a)
            /\ a.args[1].sort = Some("name") =>
                  \A i, j \in DOMAIN a.rows :
                     i < j => ~CodesLess(Codes(Lower(a.rows[j].name)),
                                         Codes(Lower(a.rows[i].name)))

\* C15: with sort=gdp_desc or sort=gdp_asc the answer lists each wanted row
\* once; rows without estimated_gdp come after all others (descending) or
\* before all others (ascending), and the estimated_gdp values present do
\* not increase (descending) or decrease (ascending) along the list.
C15_GdpOrderNullPlacement ==
    Answered(1, "query", 200) =>
        LET a == req[1].resp[1]
            gdp(k) == a.rows[k].estimated_gdp
        IN  /\ a.args[1].sort = Some("gdp_desc") =>
                  /\ ExactlyWanted(a)
                  /\ \A i, j \in DOMAIN a.rows : i < j =>
                        /\ gdp(i) = None => gdp(j) = None
                        /\ (gdp(i) # None /\ gdp(j) # None)
                              => FracLeq(gdp(j)[1], gdp(i)[1])
            /\ a.args[1].sort = Some("gdp_asc") =>
                  /\ ExactlyWanted(a)
                  /\ \A i, j \in DOMAIN a.rows : i < j =>
                        /\ gdp(j) = None => gdp(i) = None
                        /\ (gdp(i) # None /\ gdp(j) # None)
                              => FracLeq(gdp(i)[1], gdp(j)[1])

\* region=AFRICA, sort=gdp_desc: Wakanda's positive estimate, Zamunda's
\* negative one, then eSwatini without one, against the order of insertion.
C15_Witness ==
    /\ Answered(1, "query", 200)
    /\ req[1].resp[1].args[1].sort = Some("gdp_desc")
    /\ req[1].resp[1].args[1].region = Some("AFRICA")
    /\ Len(req[1].resp[1].rows) = 3
    /\ countries[1].estimated_gdp = None
    /\ req[1].resp[1].rows[1].name = "Wakanda"
    /\ req[1].resp[1].rows[2].name = "Zamunda"
    /\ req[1].resp[1].rows[2].estimated_gdp # None
    /\ req[1].resp[1].rows[3].estimated_gdp = None

\* C16: a read by worker 2 while worker 1 runs refresh cycles returns rows
\* of the committed table only, each with all its values from one directory
\* entry; and the committed table changes only when a cycle commits, each
\* row then either staying as it was or taking all its values from the
\* entry the cycle upserted last under its name.
C16_ReadsSeeWholeRows ==
    [][/\ (req'[2] # req[2] /\ req'[2].resp # None)
            => \A k \in DOMAIN req'[2].resp[1].rows :
                  /\ req'[2].resp[1].rows[k] \in Range(countries)
                  /\ WholeRow(req'[2].resp[1].rows[k])
       /\ countries' # countries
            => /\ req[1].pc = "loop" /\ req'[1].pc = "meta"
               /\ \A k \in DOMAIN countries : k \in DOMAIN countries'
               /\ \A k \in DOMAIN countries' :
                     \/ k \in DOMAIN countries /\ countries'[k] = countries[k]
                     \/ \E e \in req[1].latest, m \in Multipliers, t \in 0..MaxClock :
                           /\ Lower(e.name[1]) = Lower(countries'[k].name)
                           /\ countries'[k] = RowFor(countries'[k].name, e,
                                                     req[1].exchange_rates, m, t)
      ]_vars

\* Worker 2 looked "wakanda" up and got the committed Wakanda row while
\* worker 1's cycle had overwritten that row in its session with the values
\* of WAKANDA.
C16_Witness ==
    /\ req[1].pc = "loop"
    /\ req[1].dirty # {}
    /\ Answered(2, "get", 200)
    /\ req[2].resp[1].rows = countries
    /\ Len(countries) = 1
    /\ countries[1].capital = Some("Birnin Zana")
    /\ \E d \in req[1].dirty : d.name = countries[1].name /\ d.capital = None

\* Worker w passes once through the loop body in this step.
LoopPass(w) ==
    /\ req[w].pc = "loop"
    /\ req[w].countries_data # <<>>
    /\ req'[w].pc = "loop"
    /\ req'[w].countries_data = Tail(req[w].countries_data)

\* Row `after` has the name of row `before` and, in every other column but
\* last_refreshed_at, what entry and rates give: absent where they give
\* nothing, population 0 without a population, an estimate only with a
\* non-zero population and rate.
Overwritten(before, after, entry, rates) ==
    LET code == IF entry.currencies = <<>> THEN None ELSE entry.currencies[1]
        rate == IF code # None /\ code[1] # "" /\ code[1] \in DOMAIN rates
                THEN Some(rates[code[1]]) ELSE None
        population == IF entry.population = None THEN 0 ELSE entry.population[1]
    IN  /\ after.name = before.name
        /\ after.capital = entry.capital
        /\ after.region = entry.region
        /\ after.population = population
        /\ after.currency_code = code
        /\ after.exchange_rate = rate
        /\ after.flag_url = entry.flag
        /\ IF population = 0 \/ rate = None \/ rate = Some(0)
           THEN after.estimated_gdp = None
           ELSE \E m \in Multipliers :
                   after.estimated_gdp = Some(Frac(population * m, rate[1]))

\* C17: when the loop body handles a named entry for which the session sees
\* a row of the same name ignoring case, that row keeps its name and place
\* and has every other column overwritten from the entry, and every other
\* row and the number of rows are as before.
C17_UpsertOverwritesAllFields ==
    [][\A w \in Workers :
          LoopPass(w) =>
             LET entry == Head(req[w].countries_data)
                 before == Visible(req[w], countries)
                 after == Visible(req'[w], countries')
             IN  (TruthyStr(entry.name)
                    /\ \E k \in DOMAIN before :
                          Lower(before[k].name) = Lower(entry.name[1]))
                 => /\ Len(after) = Len(before)
                    /\ \A k \in DOMAIN before :
                          IF Lower(before[k].name) = Lower(entry.name[1])
                          THEN Overwritten(before[k], after[k], entry,
                                           req[w].exchange_rates)
                          ELSE after[k] = before[k]]_vars

\* The committed row "Wakanda", with capital, currency, rate and estimate,
\* has been overwritten in the session from the entry "WAKANDA", which has
\* none of them.
C17_Witness ==
    /\ req[1].pc = "loop"
    /\ req[1].latest = {WakandaUpper}
    /\ Len(countries) = 1
    /\ countries[1].name = "Wakanda"
    /\ countries[1].estimated_gdp # None
    /\ req[1].dirty =
          {[name |-> "Wakanda", capital |-> None, region |-> None,
            population |-> 0, currency_code |-> None, exchange_rate |-> None,
            estimated_gdp |-> None, flag_url |-> None,
            last_refreshed_at |-> clock]}

\* C18: when the entry the loop has reached has no name (None or ""), the
\* next step of the cycle passes over it: the session's pending rows, the
\* rows it sees and the committed rows are as before, no answer is given,
\* and the loop goes on with the entries that follow; the loop is left only
\* once no entry remains, and each named entry it passes leaves a row of
\* that name with the entry's values.
C18_NamelessEntrySkipped ==
    [][\A w \in Workers :
          (req[w].pc = "loop" /\ req[w].countries_data # <<>> /\ req'[w] # req[w])
             => LET entry == Head(req[w].countries_data)
                    after == Visible(req'[w], countries')
                IN  /\ LoopPass(w)
                    /\ ~TruthyStr(entry.name)
                          => /\ req'[w].new = req[w].new
                             /\ req'[w].dirty = req[w].dirty
                             /\ req'[w].resp = req[w].resp
                             /\ after = Visible(req[w], countries)
                             /\ UNCHANGED <<countries, refresh_metadata>>
                    /\ TruthyStr(entry.name)
                          => \E k \in DOMAIN after :
                                /\ Lower(after[k].name) = Lower(entry.name[1])
                                /\ Overwritten(after[k], after[k], entry,
                                               req[w].exchange_rates)]_vars

\* On an empty store the cycle that fetched <<Nameless, Wakanda>>, the only
\* body of FrameDirResponses whose last upsert is Wakanda, has passed both
\* entries: one row is pending, Wakanda's.
C18_Witness ==
    /\ req[1].pc = "loop"
    /\ req[1].countries_data = <<>>
    /\ req[1].latest = {Wakanda}
    /\ countries = <<>>
    /\ Len(req[1].new) = 1
    /\ req[1].new[1].name = "Wakanda"
    /\ req[1].new[1].capital = Wakanda.capital

\* C19: the committed rows change only when a cycle commits or a DELETE is
\* answered; the commit of a cycle keeps every row in its place under its
\* name, leaves every row whose name equals no upserted entry's name
\* ignoring case as it was, last_refreshed_at included, and does not lower
\* the number of rows.
C19_RefreshRemovesNothing ==
    [][\A w \in Workers :
          /\ (countries' # countries /\ req'[w] # req[w])
                => \/ req[w].pc = "loop" /\ req'[w].pc = "meta"
                   \/ DeleteAnswered(w)
          /\ (req[w].pc = "loop" /\ req'[w].pc = "meta")
                => /\ Len(countries') >= Len(countries)
                   /\ \A k \in DOMAIN countries :
                         /\ countries'[k].name = countries[k].name
                         /\ (\A e \in req[w].latest :
                                Lower(e.name[1]) # Lower(countries[k].name))
                               => countries'[k] = countries[k]]_vars

\* A cycle that upserted only Zamunda at time 1 has committed: the Wakanda
\* row of time 0 is still the first row.
C19_Witness ==
    /\ req[1].pc = "meta"
    /\ req[1].latest = {Zamunda}
    /\ Len(countries) = 2
    /\ countries[1].name = "Wakanda"
    /\ countries[1].last_refreshed_at = 0
    /\ countries[2].name = "Zamunda"
    /\ countries[2].last_refreshed_at = 1

\* C20: a DELETE that answers 200 has removed the one row whose name equals
\* the requested name ignoring case and left the others in order; a
\* metadata row, if there is one, then has total_countries equal to the
\* number of rows left and its last_refreshed_at as before; without a
\* metadata row none is created.
C20_DeleteUpdatesCountOnly ==
    [][\A w \in Workers :
          (DeleteAnswered(w) /\ req'[w].resp[1].code = 200)
             => LET name == req'[w].resp[1].name[1]
                    hit == {k \in DOMAIN countries :
                               Lower(countries[k].name) = Lower(name)}
                IN  /\ Cardinality(hit) = 1
                    /\ \A k \in hit :
                          countries' = SubSeq(countries, 1, k - 1)
                                          \o SubSeq(countries, k + 1, Len(countries))
                    /\ Len(refresh_metadata') = Len(refresh_metadata)
                    /\ \A k \in DOMAIN refresh_metadata :
                          /\ refresh_metadata'[k].total_countries = Len(countries')
                          /\ refresh_metadata'[k].last_refreshed_at
                                = refresh_metadata[k].last_refreshed_at]_vars

\* "wakanda" was deleted from a table of two rows whose metadata row, of
\* time 0, showed a count of 0: Zamunda is left and the count is 1.
C20_Witness ==
    /\ Answered(1, "delete", 200)
    /\ req[1].resp[1].name = Some("wakanda")
    /\ Len(countries) = 1
    /\ countries[1].name = "Zamunda"
    /\ refresh_metadata # <<>>
    /\ refresh_metadata[1].total_countries = 1
    /\ refresh_metadata[1].last_refreshed_at = Some(0)
    /\ clock = 1

====
